---- MODULE Spec2Model ----
(***************************************************************************)
(* HW Monitor v4 firmware (firmware/src/main.cpp): the serial line         *)
(* decoder, the telemetry parser and the display-mode selection of loop(). *)
(*                                                                         *)
(* Time is millis() in milliseconds.  One Tick action is one pass through  *)
(* loop(); the time the pass takes (delay(50), drawing, network calls) is  *)
(* added to the clock when the pass starts, and every millis() read of the *)
(* pass returns that value.  The draw routines are represented by the name *)
(* of the screen they draw; their animation counters are not modelled.     *)
(***************************************************************************)
EXTENDS Integers, Sequences, FiniteSets, TLC

VARIABLES
    now,                \* millis()
    linkUp,             \* WiFi.status() == WL_CONNECTED
    rx,                 \* bytes waiting in the serial receiver (Serial.available / Serial.read)
    wifiConnected,
    ntpSynced,
    lastNtpUpdate,
    weatherLat, weatherLon,
    weatherTemp, weatherCode, weatherValid,
    lastWeatherUpdate,
    lastConfigDraw,     \* static local of loop()
    hw,
    lastDataTime,
    hasSerialData,
    serialBuffer,
    inGamingMode,
    lastFpsTime,
    \* observations of the last step
    mode,               \* screen family selected by the last pass: Boot, Provisioning, Idle, Gaming
    drawn,              \* screens drawn by the last step, in order
    serialActive,       \* value of the local serialActive of the last pass that computed it
    parseLog,           \* lines handed to parseJson by the last step, in order
    lastParseAt,        \* time of the most recent successful parse, Never before the first
    doc,                \* parser runs: the deserialization result handed to parseJson
    sent,               \* bursts the sender has written so far
    linkChanges,        \* changes of the WiFi link so far
    fed                 \* decoder runs: the bytes readSerial has taken so far

vars == <<now, linkUp, rx, wifiConnected, ntpSynced, lastNtpUpdate, weatherLat,
          weatherLon, weatherTemp, weatherCode, weatherValid, lastWeatherUpdate,
          lastConfigDraw, hw, lastDataTime, hasSerialData, serialBuffer,
          inGamingMode, lastFpsTime, mode, drawn, serialActive, parseLog,
          lastParseAt, doc, sent, linkChanges, fed>>

----------------------------------------------------------------------------
(* Program constants *)

SERIAL_TIMEOUT_MS == 5000
GAMING_COOLDOWN_MS == 3000
NTP_UPDATE_INTERVAL == 60000
WEATHER_INTERVAL == 900000
CONFIG_REDRAW_MS == 500
MaxBufferLen == 512
HoraCap == 5
DataCap == 11

(* Bounds of the model *)

MaxTime == 7001
MaxRx == 21
MaxSent == 2
MaxLinkChanges == 1
MaxQuietTime == 2400000
MaxFlaps == 2

\* "no parse yet": a value below every reading of the clock
Never == 0 - 1
\* a deserialization result: the error flag and, without error, the document
DeserErr == [err |-> TRUE]
DeserOk(d) == [err |-> FALSE, obj |-> d]

\* time from one pass of loop() to the next (delay(50), drawing, network calls)
Delays == {1000, 2000, 3001}
\* time between two passes looked at in the long runs without serial traffic
QuietDelays == {30000, 300000, 600001}
\* millis() when setup() returns
BootTimes == {1000}

----------------------------------------------------------------------------
(* Bytes and lines *)

LF == "\n"
CR == "\r"

LineFps60 == <<"{", "\"", "f", "p", "s", "\"", ":", "6", "0", "}">>
LineCpu150Fps0 == <<"{", "\"", "c", "p", "u", "\"", ":", "1", "5", "0", ",",
                    "\"", "f", "p", "s", "\"", ":", "0", "}">>
LineTruncated == <<"{", "\"", "f", "p", "s", "\"", ":">>
LineTime1432 == <<"{", "\"", "t", "i", "m", "e", "\"", ":", "\"", "1", "4", ":",
                  "3", "2", "\"", "}">>

\* deserializeJson on the lines of the model: a document (key -> value) for a
\* well-formed object, an error for everything else
LineDocs ==
    (LineFps60 :> DeserOk([fps |-> 60])) @@
    (LineCpu150Fps0 :> DeserOk([cpu |-> 150, fps |-> 0])) @@
    (LineTime1432 :> DeserOk([time |-> <<"1", "4", ":", "3", "2">>]))

Deserialize(json) ==
    IF json \in DOMAIN LineDocs THEN LineDocs[json] ELSE DeserErr

\* what the sender may put on the wire in one burst
Chunks == { Append(LineFps60, LF),
            LineCpu150Fps0 \o <<CR, LF>>,
            Append(LineTruncated, LF),
            Append(LineTime1432, LF) }

----------------------------------------------------------------------------
(* HWData and parseJson *)

NumKeys == {"cpu", "gpu", "ram", "cpu_temp", "gpu_temp", "fps", "cpu_clk", "gpu_clk"}

HWDataInit ==
    [cpu |-> 0, gpu |-> 0, ram |-> 0, cpu_temp |-> 0, gpu_temp |-> 0,
     fps |-> 0, cpu_clk |-> 0, gpu_clk |-> 0,
     hora |-> <<"-", "-", ":", "-", "-">>, data |-> <<>>]

\* constrain without its upper limit
Constrain_NoUpper(amt, low, high) ==
    IF amt < low THEN low ELSE amt

\* Arduino constrain(amt, low, high)
Constrain(amt, low, high) ==
    IF amt < low THEN low ELSE IF amt > high THEN high ELSE amt

\* doc[key] | 0
JsonInt(d, key) == IF key \in DOMAIN d THEN d[key] ELSE 0

\* doc[key] | ""
JsonStr(d, key) == IF key \in DOMAIN d THEN d[key] ELSE <<>>

\* strncpy(dst, src, cap) followed by dst[cap] = '\0'
StrNCopy(src, cap) == SubSeq(src, 1, IF Len(src) < cap THEN Len(src) ELSE cap)

\* parseJson that adds the fps of the line to the cached one
ClampFields_Accumulate(h, d) ==
    [h EXCEPT !.cpu      = Constrain(JsonInt(d, "cpu"), 0, 100),
              !.gpu      = Constrain(JsonInt(d, "gpu"), 0, 100),
              !.ram      = Constrain(JsonInt(d, "ram"), 0, 100),
              !.cpu_temp = Constrain(JsonInt(d, "cpu_temp"), 0, 120),
              !.gpu_temp = Constrain(JsonInt(d, "gpu_temp"), 0, 120),
              !.fps      = Constrain(h.fps + JsonInt(d, "fps"), 0, 9999),
              !.cpu_clk  = Constrain(JsonInt(d, "cpu_clk"), 0, 9999),
              !.gpu_clk  = Constrain(JsonInt(d, "gpu_clk"), 0, 9999)]

\* the assignments of parseJson to the eight numeric fields
ClampFields(h, d) ==
    [h EXCEPT !.cpu      = Constrain(JsonInt(d, "cpu"), 0, 100),
              !.gpu      = Constrain(JsonInt(d, "gpu"), 0, 100),
              !.ram      = Constrain(JsonInt(d, "ram"), 0, 100),
              !.cpu_temp = Constrain(JsonInt(d, "cpu_temp"), 0, 120),
              !.gpu_temp = Constrain(JsonInt(d, "gpu_temp"), 0, 120),
              !.fps      = Constrain(JsonInt(d, "fps"), 0, 9999),
              !.cpu_clk  = Constrain(JsonInt(d, "cpu_clk"), 0, 9999),
              !.gpu_clk  = Constrain(JsonInt(d, "gpu_clk"), 0, 9999)]

\* string copies without the strlen tests: an absent key blanks the field
CopyStrings_Clobber(h, d) ==
    [h EXCEPT !.hora = StrNCopy(JsonStr(d, "time"), HoraCap),
              !.data = StrNCopy(JsonStr(d, "date"), DataCap)]

\* the two string copies of parseJson
CopyStrings(h, d) ==
    LET t == JsonStr(d, "time")
        dd == JsonStr(d, "date")
    IN [h EXCEPT !.hora = IF Len(t) > 0 THEN StrNCopy(t, HoraCap) ELSE @,
                 !.data = IF Len(dd) > 0 THEN StrNCopy(dd, DataCap) ELSE @]

\* The serial side of the device: what readSerial and parseJson read and write.
\* st = [buf, hw, lastDataTime, hasSerialData, log, lastParseAt]

\* parseJson that stamps the arrival before it looks at the error
ApplyDoc_MarksFresh(st, res, t) ==
    IF res.err
    THEN [st EXCEPT !.lastDataTime = t, !.hasSerialData = TRUE]
    ELSE [st EXCEPT !.hw = CopyStrings(ClampFields(st.hw, res.obj), res.obj),
                    !.lastDataTime = t,
                    !.hasSerialData = TRUE,
                    !.lastParseAt = t]

\* parseJson after deserializeJson returned res, at time t
ApplyDoc(st, res, t) ==
    IF res.err
    THEN st
    ELSE [st EXCEPT !.hw = CopyStrings(ClampFields(st.hw, res.obj), res.obj),
                    !.lastDataTime = t,
                    !.hasSerialData = TRUE,
                    !.lastParseAt = t]

ParseJson(st, json, t) ==
    ApplyDoc([st EXCEPT !.log = Append(@, json)], Deserialize(json), t)

\* readSerial without the ceiling on the buffer
ReadByte_NoCeiling(st, c, t) ==
    IF c = LF \/ c = CR
    THEN IF Len(st.buf) > 0
         THEN [ParseJson(st, st.buf, t) EXCEPT !.buf = <<>>]
         ELSE st
    ELSE [st EXCEPT !.buf = Append(@, c)]

\* readSerial that ends a line at '\n' only
ReadByte_LfOnly(st, c, t) ==
    IF c = LF
    THEN IF Len(st.buf) > 0
         THEN [ParseJson(st, st.buf, t) EXCEPT !.buf = <<>>]
         ELSE st
    ELSE IF Len(st.buf) + 1 > MaxBufferLen
         THEN [st EXCEPT !.buf = <<>>]
         ELSE [st EXCEPT !.buf = Append(@, c)]

\* body of the while loop of readSerial for one byte c
ReadByte(st, c, t) ==
    IF c = LF \/ c = CR
    THEN IF Len(st.buf) > 0
         THEN [ParseJson(st, st.buf, t) EXCEPT !.buf = <<>>]
         ELSE st
    ELSE IF Len(st.buf) + 1 > MaxBufferLen
         THEN [st EXCEPT !.buf = <<>>]
         ELSE [st EXCEPT !.buf = Append(@, c)]

RECURSIVE ReadSerial(_, _, _)
ReadSerial(st, bytes, t) ==
    IF bytes = <<>> THEN st
    ELSE ReadSerial(ReadByte(st, Head(bytes), t), Tail(bytes), t)

SerialState ==
    [buf |-> serialBuffer, hw |-> hw, lastDataTime |-> lastDataTime,
     hasSerialData |-> hasSerialData, log |-> <<>>, lastParseAt |-> lastParseAt]

----------------------------------------------------------------------------
(* Network collaborators: clock sync, location, weather *)

\* decoded answers of the location and weather services
LocResponses == {[ok |-> FALSE], [ok |-> TRUE, lat |-> -23, lon |-> -46]}
WxResponses == {[ok |-> FALSE], [ok |-> TRUE, temp |-> 21, code |-> 3]}

NtpHora == <<"0", "9", ":", "4", "1">>
NtpData == <<"0", "1", " ", "N", "o", "v">>

\* millis() - since in unsigned long; the clock of the model stays far below
\* the 2^32 wrap, where the difference is the plain one
Elapsed(t, since) == t - since

\* w = [lat, lon, temp, code, valid, last]
WeatherState ==
    [lat |-> weatherLat, lon |-> weatherLon, temp |-> weatherTemp,
     code |-> weatherCode, valid |-> weatherValid, last |-> lastWeatherUpdate]

\* syncNTP: getLocalTime(&timeinfo, 5000) answered ok or not
SyncNTP(synced, ok) == IF ok THEN TRUE ELSE synced

FetchLocation(w, resp) ==
    IF ~resp.ok THEN w ELSE [w EXCEPT !.lat = resp.lat, !.lon = resp.lon]

\* fetchWeather that clears the snapshot when the request fails
FetchWeather_ClearsOnFail(w, resp, t) ==
    IF w.lat = 0 /\ w.lon = 0 THEN w
    ELSE IF ~resp.ok THEN [w EXCEPT !.valid = FALSE, !.last = t]
    ELSE [w EXCEPT !.temp = resp.temp, !.code = resp.code, !.valid = TRUE, !.last = t]

\* fetchWeather at time t: resp is what the HTTP request and the decoding gave
FetchWeather(w, resp, t) ==
    IF w.lat = 0 /\ w.lon = 0 THEN w
    ELSE IF ~resp.ok THEN w
    ELSE [w EXCEPT !.temp = resp.temp, !.code = resp.code, !.valid = TRUE, !.last = t]

\* updateNtpTime: the local clock is set once the time was synced
UpdateNtpTime(h) == [h EXCEPT !.hora = NtpHora, !.data = NtpData]

----------------------------------------------------------------------------
(* loop() *)

\* serialActive without the hasSerialData flag
SerialActive_NoFlag(t, st) ==
    Elapsed(t, st.lastDataTime) < SERIAL_TIMEOUT_MS

\* bool serialActive = (millis() - lastDataTime < SERIAL_TIMEOUT_MS) && hasSerialData
SerialActive(t, st) ==
    Elapsed(t, st.lastDataTime) < SERIAL_TIMEOUT_MS /\ st.hasSerialData

\* the switch without the cooldown: Idle as soon as the gaming condition fails
AutoSwitch_NoHysteresis(t, fps, active, gaming, lastFps) ==
    IF fps > 0 /\ active THEN <<TRUE, t>> ELSE <<FALSE, lastFps>>

\* the switch that never leaves Gaming
AutoSwitch_NeverLeaves(t, fps, active, gaming, lastFps) ==
    IF fps > 0 /\ active THEN <<TRUE, t>> ELSE <<gaming, lastFps>>

\* the switch that takes fps >= 0 for a running game
AutoSwitch_ZeroFps(t, fps, active, gaming, lastFps) ==
    IF fps >= 0 /\ active THEN <<TRUE, t>>
    ELSE IF gaming /\ Elapsed(t, lastFps) > GAMING_COOLDOWN_MS THEN <<FALSE, lastFps>>
    ELSE <<gaming, lastFps>>

\* the gaming/idle switch: the new <<inGamingMode, lastFpsTime>>
\* a switch that looks at the cached fps alone, fresh or not
AutoSwitch_CachedFps(t, fps, active, gaming, lastFps) ==
    IF fps > 0 THEN <<TRUE, t>>
    ELSE IF gaming /\ Elapsed(t, lastFps) > GAMING_COOLDOWN_MS THEN <<FALSE, lastFps>>
    ELSE <<gaming, lastFps>>

\* a switch that enters gaming without recording the time
AutoSwitch_NoStamp(t, fps, active, gaming, lastFps) ==
    IF fps > 0 /\ active THEN <<TRUE, lastFps>>
    ELSE IF gaming /\ Elapsed(t, lastFps) > GAMING_COOLDOWN_MS THEN <<FALSE, lastFps>>
    ELSE <<gaming, lastFps>>

AutoSwitch(t, fps, active, gaming, lastFps) ==
    IF fps > 0 /\ active THEN <<TRUE, t>>
    ELSE IF gaming /\ Elapsed(t, lastFps) > GAMING_COOLDOWN_MS THEN <<FALSE, lastFps>>
    ELSE <<gaming, lastFps>>

\* a clock block that refreshes only when the 60 s interval has passed
NtpRefresh_IntervalOnly(t, active, synced, h, last) ==
    IF ~active /\ synced /\ Elapsed(t, last) > NTP_UPDATE_INTERVAL
    THEN <<UpdateNtpTime(h), t>>
    ELSE <<h, last>>

\* a clock block that does not look at serialActive
NtpRefresh_Always(t, active, synced, h, last) ==
    IF synced
    THEN <<UpdateNtpTime(h),
           IF Elapsed(t, last) > NTP_UPDATE_INTERVAL THEN t ELSE last>>
    ELSE <<h, last>>

\* the clock block of loop(): without fresh telemetry and with synced time the
\* strings are refreshed on every pass (the call after the interval test), and
\* lastNtpUpdate advances when the interval has passed; result <<hw, lastNtpUpdate>>
NtpRefresh(t, active, synced, h, last) ==
    IF ~active /\ synced
    THEN <<UpdateNtpTime(h),
           IF Elapsed(t, last) > NTP_UPDATE_INTERVAL THEN t ELSE last>>
    ELSE <<h, last>>

\* the screen drawn at the end of a pass
Dispatch(gaming) == IF gaming THEN "Gaming" ELSE "Idle"

\* loop() from the reconnect check to the end, entered at time t with
\* wifiConnected = wc, the weather state w and the screens pre already drawn;
\* link is what WiFi.status() answers, wx the weather service
LoopBody(t, wc, w, synced, pre, link, wx) ==
    \E st \in {ReadSerial(SerialState, rx, t)} :
    LET wc2 == IF ~link THEN FALSE ELSE wc
        w2  == IF wc2 /\ Elapsed(t, w.last) > WEATHER_INTERVAL
               THEN FetchWeather(w, wx, t) ELSE w
        act == SerialActive(t, st)
        ntp == NtpRefresh(t, act, synced, st.hw, lastNtpUpdate)
        h2  == ntp[1]
        sw  == AutoSwitch(t, h2.fps, act, inGamingMode, lastFpsTime)
    IN  /\ now' = t
        /\ wifiConnected' = wc2
        /\ ntpSynced' = synced
        /\ weatherLat' = w2.lat
        /\ weatherLon' = w2.lon
        /\ weatherTemp' = w2.temp
        /\ weatherCode' = w2.code
        /\ weatherValid' = w2.valid
        /\ lastWeatherUpdate' = w2.last
        /\ rx' = <<>>
        /\ serialBuffer' = st.buf
        /\ hw' = h2
        /\ lastDataTime' = st.lastDataTime
        /\ hasSerialData' = st.hasSerialData
        /\ lastParseAt' = st.lastParseAt
        /\ parseLog' = st.log
        /\ serialActive' = act
        /\ lastNtpUpdate' = ntp[2]
        /\ inGamingMode' = sw[1]
        /\ lastFpsTime' = sw[2]
        /\ mode' = Dispatch(sw[1])
        /\ drawn' = Append(pre, Dispatch(sw[1]))
        /\ UNCHANGED <<lastConfigDraw, doc, sent, linkChanges, fed>>

\* the provisioning branch without its return: the pass goes on to the screens
TickProvisioning_FallThrough(dt) ==
    /\ ~wifiConnected
    /\ ~linkUp
    /\ now + dt <= MaxTime
    /\ UNCHANGED linkUp
    /\ LoopBody(now + dt, FALSE, WeatherState, ntpSynced, <<"Config">>, linkUp,
                [ok |-> FALSE])

\* a pass that finds the WiFi still not connected: captive portal, config screen
TickProvisioning(dt) ==
    /\ ~wifiConnected
    /\ ~linkUp
    /\ now + dt <= MaxTime
    /\ now' = now + dt
    /\ IF Elapsed(now + dt, lastConfigDraw) > CONFIG_REDRAW_MS
       THEN lastConfigDraw' = now + dt /\ drawn' = <<"Config">>
       ELSE lastConfigDraw' = lastConfigDraw /\ drawn' = <<>>
    /\ mode' = "Provisioning"
    /\ parseLog' = <<>>
    /\ UNCHANGED <<linkUp, rx, wifiConnected, ntpSynced, lastNtpUpdate, weatherLat,
                   weatherLon, weatherTemp, weatherCode, weatherValid,
                   lastWeatherUpdate, hw, lastDataTime, hasSerialData,
                   serialBuffer, inGamingMode, lastFpsTime, serialActive,
                   lastParseAt, doc, sent, linkChanges, fed>>

\* a connect pass that syncs but leaves wifiConnected unset
TickConnect_StaysDown(dt, ntpOk, loc, wx, link2) ==
    /\ ~wifiConnected
    /\ linkUp
    /\ now + dt <= MaxTime
    /\ linkUp' = link2
    /\ LoopBody(now + dt, FALSE,
                FetchWeather(FetchLocation(WeatherState, loc), wx, now + dt),
                SyncNTP(ntpSynced, ntpOk), <<"Boot", "Boot">>, link2, wx)

\* a pass that finds the WiFi connected for the first time or again: sync, then
\* the rest of the pass; the link may have dropped again while syncing
TickConnect(dt, ntpOk, loc, wx, link2) ==
    /\ ~wifiConnected
    /\ linkUp
    /\ now + dt <= MaxTime
    /\ linkUp' = link2
    /\ LoopBody(now + dt, TRUE,
                FetchWeather(FetchLocation(WeatherState, loc), wx, now + dt),
                SyncNTP(ntpSynced, ntpOk), <<"Boot", "Boot">>, link2, wx)

\* a pass that syncs again whenever it finds the link up
TickNormal_Resync(dt, wx) ==
    /\ wifiConnected
    /\ now + dt <= MaxTime
    /\ UNCHANGED linkUp
    /\ LoopBody(now + dt, TRUE, WeatherState, ntpSynced,
                IF linkUp THEN <<"Boot", "Boot">> ELSE <<>>, linkUp, wx)

\* a pass that starts with wifiConnected set
TickNormal(dt, wx) ==
    /\ wifiConnected
    /\ now + dt <= MaxTime
    /\ UNCHANGED linkUp
    /\ LoopBody(now + dt, TRUE, WeatherState, ntpSynced, <<>>, linkUp, wx)

(* Environment *)

\* the sender writes a burst of bytes
Arrive(chunk) ==
    /\ Len(rx) + Len(chunk) <= MaxRx
    /\ sent < MaxSent
    /\ rx' = rx \o chunk
    /\ sent' = sent + 1
    /\ UNCHANGED <<linkChanges, fed, now, linkUp, wifiConnected, ntpSynced, lastNtpUpdate, weatherLat,
                   weatherLon, weatherTemp, weatherCode, weatherValid,
                   lastWeatherUpdate, lastConfigDraw, hw, lastDataTime,
                   hasSerialData, serialBuffer, inGamingMode, lastFpsTime, mode,
                   drawn, serialActive, parseLog, lastParseAt, doc>>

\* the access point comes or goes
LinkChange ==
    /\ linkChanges < MaxLinkChanges
    /\ linkUp' = ~linkUp
    /\ linkChanges' = linkChanges + 1
    /\ UNCHANGED <<sent, fed, now, rx, wifiConnected, ntpSynced, lastNtpUpdate, weatherLat,
                   weatherLon, weatherTemp, weatherCode, weatherValid,
                   lastWeatherUpdate, lastConfigDraw, hw, lastDataTime,
                   hasSerialData, serialBuffer, inGamingMode, lastFpsTime, mode,
                   drawn, serialActive, parseLog, lastParseAt, doc>>

\* setup(): wm.autoConnect answered connected or opened the portal
Setup(t, connected, ntpOk, loc, wx) ==
    LET w0 == [lat |-> 0, lon |-> 0, temp |-> 0, code |-> -1, valid |-> FALSE, last |-> 0]
        w  == IF connected THEN FetchWeather(FetchLocation(w0, loc), wx, t) ELSE w0
    IN  /\ now = t
        /\ linkUp = connected
        /\ wifiConnected = connected
        /\ ntpSynced = (connected /\ ntpOk)
        /\ lastNtpUpdate = 0
        /\ weatherLat = w.lat
        /\ weatherLon = w.lon
        /\ weatherTemp = w.temp
        /\ weatherCode = w.code
        /\ weatherValid = w.valid
        /\ lastWeatherUpdate = w.last
        /\ lastConfigDraw = 0
        /\ hw = HWDataInit
        /\ lastDataTime = t
        /\ hasSerialData = FALSE
        /\ serialBuffer = <<>>
        /\ inGamingMode = FALSE
        /\ lastFpsTime = 0
        /\ mode = IF connected THEN "Boot" ELSE "Provisioning"
        /\ drawn = IF connected THEN <<"Boot", "Boot", "Boot">> ELSE <<"Boot", "Config">>
        /\ serialActive = FALSE
        /\ parseLog = <<>>
        /\ lastParseAt = Never
        /\ sent = 0
        /\ linkChanges = 0
        /\ fed = <<>>

Init ==
    \E t \in BootTimes, connected \in BOOLEAN, ntpOk \in BOOLEAN,
       loc \in LocResponses, wx \in WxResponses :
        /\ Setup(t, connected, ntpOk, loc, wx)
        /\ rx = <<>>
        /\ doc = DeserErr

Next ==
    \/ \E dt \in Delays : TickProvisioning(dt)
    \/ \E dt \in Delays, ntpOk \in BOOLEAN, loc \in LocResponses,
          wx \in WxResponses, link2 \in BOOLEAN :
            TickConnect(dt, ntpOk, loc, wx, link2)
    \/ \E dt \in Delays, wx \in WxResponses : TickNormal(dt, wx)
    \/ \E chunk \in Chunks : Arrive(chunk)
    \/ LinkChange

Spec == Init /\ [][Next]_vars

TypeOK ==
    /\ now \in 0..MaxTime
    /\ mode \in {"Boot", "Provisioning", "Idle", "Gaming"}
    /\ Len(serialBuffer) <= MaxBufferLen

----------------------------------------------------------------------------
(* parseJson alone: deserialization results drawn from a bounded set *)

\* declared upper limit of a numeric field
Hi(key) == IF key \in {"cpu", "gpu", "ram"} THEN 100
           ELSE IF key \in {"cpu_temp", "gpu_temp"} THEN 120
           ELSE 9999

\* value number c of a key: below the range, its ends, inside, above
ValueOf(key, c) ==
    CASE c = 1 -> -1
      [] c = 2 -> 0
      [] c = 3 -> Hi(key) - 1
      [] c = 4 -> Hi(key)
      [] c = 5 -> Hi(key) + 50

\* the object in which key k carries value a and the other keys value b (0: absent)
ObjectOf(k, a, b) ==
    LET present == {j \in NumKeys : IF j = k THEN a # 0 ELSE b # 0}
    IN [j \in present |-> ValueOf(j, IF j = k THEN a ELSE b)]

NumObjects == { ObjectOf(k, a, b) : k \in NumKeys, a \in 0..5, b \in {0, 5} }

StrObjects ==
    { [fps |-> 60, time |-> <<"1", "4", ":", "3", "2">>],
      [time |-> <<"1", "4", ":", "3", "2", ":", "0", "7">>,
       date |-> <<"0", "7", " ", "J", "u", "n", "e", " ", "2", "0", "2", "6">>],
      [cpu |-> 7, time |-> <<>>, date |-> <<"0", "7", " ", "J", "u", "n">>] }

ParseInputs == {DeserErr} \cup { DeserOk(d) : d \in NumObjects \cup StrObjects }

InitParse ==
    \E t \in BootTimes, d \in ParseInputs :
        /\ Setup(t, FALSE, FALSE, [ok |-> FALSE], [ok |-> FALSE])
        /\ rx = <<>>
        /\ doc = d

\* parseJson is called with a line that deserializes to doc; d is the next one;
\* parseLog keeps what was handed over so far
ParseStep(dt, d) ==
    LET st == ApplyDoc(SerialState, doc, now + dt)
    IN  /\ now + dt <= MaxTime
        /\ now' = now + dt
        /\ hw' = st.hw
        /\ lastDataTime' = st.lastDataTime
        /\ hasSerialData' = st.hasSerialData
        /\ lastParseAt' = st.lastParseAt
        /\ doc' = d
        /\ parseLog' = Append(parseLog, doc)
        /\ UNCHANGED <<linkUp, rx, wifiConnected, ntpSynced, lastNtpUpdate,
                       weatherLat, weatherLon, weatherTemp, weatherCode,
                       weatherValid, lastWeatherUpdate, lastConfigDraw,
                       serialBuffer, inGamingMode, lastFpsTime, mode, drawn,
                       serialActive, sent, linkChanges, fed>>

\* valid lines and malformed ones come in every few seconds
NextParse == \E d \in ParseInputs : ParseStep(GAMING_COOLDOWN_MS, d)

SpecParse == InitParse /\ [][NextParse]_vars

----------------------------------------------------------------------------
(* readSerial alone: one byte of a given stream per step *)

Garbage(n) == [i \in 1..n |-> "x"]

\* lengths of unterminated input around and beyond the ceiling
RunLens == {MaxBufferLen - 1, MaxBufferLen, MaxBufferLen + 1, MaxBufferLen + 2}

\* pieces of short streams: terminators alone and in pairs, lines, a stray byte
Pieces == {<<>>, <<LF>>, <<CR>>, <<CR, LF>>, LineFps60, LineTruncated, <<"x">>}

Streams ==
    { Garbage(n) \o Append(LineFps60, LF) : n \in RunLens } \cup
    { Garbage(n) \o <<LF>> \o Append(LineFps60, LF) : n \in RunLens } \cup
    { a \o b \o c \o d : a \in Pieces, b \in Pieces, c \in Pieces, d \in Pieces }

InitFeed ==
    \E t \in BootTimes, bytes \in Streams :
        /\ Setup(t, TRUE, FALSE, [ok |-> FALSE], [ok |-> FALSE])
        /\ rx = bytes
        /\ doc = DeserErr

FeedByte ==
    LET st == ReadByte(SerialState, Head(rx), now)
    IN  /\ rx # <<>>
        /\ rx' = Tail(rx)
        /\ fed' = Append(fed, Head(rx))
        /\ serialBuffer' = st.buf
        /\ hw' = st.hw
        /\ lastDataTime' = st.lastDataTime
        /\ hasSerialData' = st.hasSerialData
        /\ lastParseAt' = st.lastParseAt
        /\ parseLog' = parseLog \o st.log
        /\ UNCHANGED <<now, linkUp, wifiConnected, ntpSynced, lastNtpUpdate,
                       weatherLat, weatherLon, weatherTemp, weatherCode,
                       weatherValid, lastWeatherUpdate, lastConfigDraw,
                       inGamingMode, lastFpsTime, mode, drawn, serialActive,
                       doc, sent, linkChanges>>

SpecFeed == InitFeed /\ [][FeedByte]_vars

----------------------------------------------------------------------------
(* The link comes and goes: passes 1000 ms apart, the sender writes fps = 60 *)

\* the access point comes or goes, up to MaxFlaps times
LinkFlap ==
    /\ linkChanges < MaxFlaps
    /\ linkUp' = ~linkUp
    /\ linkChanges' = linkChanges + 1
    /\ UNCHANGED <<sent, fed, now, rx, wifiConnected, ntpSynced, lastNtpUpdate,
                   weatherLat, weatherLon, weatherTemp, weatherCode, weatherValid,
                   lastWeatherUpdate, lastConfigDraw, hw, lastDataTime,
                   hasSerialData, serialBuffer, inGamingMode, lastFpsTime, mode,
                   drawn, serialActive, parseLog, lastParseAt, doc>>

NextLink ==
    \/ TickProvisioning(1000)
    \/ \E ntpOk \in BOOLEAN, loc \in LocResponses, wx \in WxResponses,
          link2 \in BOOLEAN :
          TickConnect(1000, ntpOk, loc, wx, link2)
    \/ \E wx \in WxResponses : TickNormal(1000, wx)
    \/ Arrive(Append(LineFps60, LF))
    \/ LinkFlap

SpecLink == Init /\ [][NextLink]_vars

----------------------------------------------------------------------------
(* Long runs: the device is connected and nothing arrives on the serial port *)

InitQuiet ==
    /\ \E ntpOk \in BOOLEAN, loc \in LocResponses, wx \in WxResponses :
          Setup(1000, TRUE, ntpOk, loc, wx)
    /\ rx = <<>>
    /\ doc = DeserErr

\* a pass of loop() with wifiConnected set and the link up
TickQuiet(dt, wx) ==
    /\ wifiConnected
    /\ now + dt <= MaxQuietTime
    /\ UNCHANGED linkUp
    /\ LoopBody(now + dt, TRUE, WeatherState, ntpSynced, <<>>, linkUp, wx)

NextQuiet == \E dt \in QuietDelays, wx \in WxResponses : TickQuiet(dt, wx)

SpecQuiet == InitQuiet /\ [][NextQuiet]_vars

----------------------------------------------------------------------------
(* Properties *)

Range(f) == {f[i] : i \in DOMAIN f}
Min(a, b) == IF a < b THEN a ELSE b
Max(a, b) == IF a > b THEN a ELSE b

\* the step is a pass of loop()
Pass == now' # now
\* the step is a pass that reaches the mode selection
SelectingPass == Pass /\ mode' # "Provisioning"
\* the pass has parsed at least one valid record
ParsedInPass == parseLog' # <<>> /\ lastParseAt' = now'

\* C1: on every pass that starts with wifiConnected false and finds the WiFi
\* link still down, the provisioning mode is selected and neither the Gaming
\* nor the Idle screen is drawn, whatever hasSerialData, lastDataTime, hw.fps
\* and inGamingMode are.
C1_ProvisioningPriority ==
    [][ (Pass /\ ~wifiConnected /\ ~linkUp)
          => /\ mode' = "Provisioning"
             /\ Range(drawn') \subseteq {"Config"} ]_vars

\* a provisioning pass taken while telemetry is fresh and a game is running
C1_Witness ==
    /\ mode = "Provisioning"
    /\ drawn = <<"Config">>
    /\ hasSerialData
    /\ now - lastDataTime < SERIAL_TIMEOUT_MS
    /\ hw.fps > 0
    /\ inGamingMode

\* C2: once Gaming was entered, a selecting pass on which the gaming condition
\* (fresh telemetry and fps > 0) fails keeps Gaming while less than 3000 ms have
\* passed since the last pass with fresh fps > 0, and selects Idle once more
\* than 3000 ms have passed; a record fps = 0 parsed at most 2000 ms after a
\* record with fps > 0 leaves the mode Gaming.
C2_GamingHysteresis ==
    [][ /\ (SelectingPass /\ inGamingMode /\ ~(hw'.fps > 0 /\ serialActive'))
            => /\ (now' - lastFpsTime < GAMING_COOLDOWN_MS => mode' = "Gaming")
               /\ (now' - lastFpsTime > GAMING_COOLDOWN_MS => mode' = "Idle")
        /\ (SelectingPass /\ hasSerialData /\ hw.fps > 0 /\ ParsedInPass
              /\ hw'.fps = 0 /\ now' - lastDataTime <= 2000)
            => mode' = "Gaming" ]_vars

\* fps = 60, 2000 ms of silence, then a record with fps = 0: still Gaming
C2_Witness ==
    /\ mode = "Gaming"
    /\ hw.fps = 0
    /\ parseLog # <<>>
    /\ lastParseAt = now
    /\ now - lastFpsTime = 2000

\* C3 as stated: telemetry was fresh, no byte for 5001 ms, no network time: the
\* pass selects a mode Offline.
C3_Offline ==
    [][ (SelectingPass /\ hasSerialData /\ rx = <<>> /\ ~ntpSynced'
           /\ now' - lastDataTime >= SERIAL_TIMEOUT_MS + 1)
          => mode' = "Offline" ]_vars

\* C3 amended: in that situation the pass selects Idle, or Gaming while not
\* more than 3000 ms have passed since the last pass with fresh fps > 0; the
\* telemetry counts as stale and no other mode is selected.
C3_StaleFallsBackToIdle ==
    [][ (SelectingPass /\ hasSerialData /\ rx = <<>> /\ ~ntpSynced'
           /\ now' - lastDataTime >= SERIAL_TIMEOUT_MS + 1)
          => /\ ~serialActive'
             /\ mode' = IF inGamingMode /\ now' - lastFpsTime <= GAMING_COOLDOWN_MS
                        THEN "Gaming" ELSE "Idle" ]_vars

\* stale telemetry without network time, shown as Idle
C3_Witness ==
    /\ mode = "Idle"
    /\ hasSerialData
    /\ ~ntpSynced
    /\ hw.fps > 0
    /\ now - lastDataTime >= SERIAL_TIMEOUT_MS + 1

\* C4 as stated: a provisioning pass consumes the bytes waiting on the serial
\* channel through readSerial, and every valid line among them updates the
\* cached record and the freshness timestamp.
C4_DecoderRunsWhileProvisioning ==
    [][ (Pass /\ mode' = "Provisioning")
          => LET st == ReadSerial(SerialState, rx, now')
             IN /\ rx' = <<>>
                /\ hw' = st.hw
                /\ lastDataTime' = st.lastDataTime
                /\ hasSerialData' = st.hasSerialData ]_vars

\* C5 as stated: once more than 512 bytes were fed without a terminator the
\* buffer is empty, and a valid line fed next with its terminator is parsed as
\* exactly that line and updates the cached record.
C5_OversizeRecovery ==
    \A n \in RunLens :
        n > MaxBufferLen =>
            /\ (fed = Garbage(n) => serialBuffer = <<>>)
            /\ (fed = Garbage(n) \o Append(LineFps60, LF)
                  => /\ parseLog = <<LineFps60>>
                     /\ hw.fps = 60
                     /\ hasSerialData)

\* every numeric field lies in its declared range
InRange == \A k \in NumKeys : hw[k] >= 0 /\ hw[k] <= Hi(k)

\* C6: after parseJson accepts a line every numeric field equals
\* min(max(v, 0), hi) for the value v of the line (0 when absent) and the
\* declared limit hi; the record is accepted whatever the values are, and in
\* every reachable state every numeric field lies in its range.
C6_Clamping ==
    /\ []InRange
    /\ [][ ~doc.err
             => /\ \A k \in NumKeys :
                     hw'[k] = Min(Max(IF k \in DOMAIN doc.obj THEN doc.obj[k] ELSE 0, 0),
                                  Hi(k))
                /\ hasSerialData'
                /\ lastDataTime' = now' ]_vars

\* a record with gpu below its range and every other field above it
C6_Witness ==
    /\ hasSerialData
    /\ hw.gpu = 0
    /\ hw.cpu = 100 /\ hw.ram = 100
    /\ hw.cpu_temp = 120 /\ hw.gpu_temp = 120
    /\ hw.fps = 9999 /\ hw.cpu_clk = 9999 /\ hw.gpu_clk = 9999

\* C7: a line that fails deserialization leaves the cached record (numeric
\* fields, hora, data), lastDataTime and hasSerialData unchanged.
C7_MalformedIgnored ==
    [][ doc.err => UNCHANGED <<hw, lastDataTime, hasSerialData>> ]_vars

\* a malformed line was handed over after a valid record had been cached
C7_Witness ==
    /\ hasSerialData
    /\ hw.fps = 9999
    /\ lastDataTime < now
    /\ lastParseAt = lastDataTime
    /\ now - lastDataTime = GAMING_COOLDOWN_MS

\* C8: on a selecting pass the telemetry counts as fresh exactly when a valid
\* record has been parsed since boot and less than 5000 ms have passed since
\* the most recent valid parse; serialActive turns true only on a pass that
\* parsed a valid record.
C8_Freshness ==
    [][ /\ SelectingPass
            => serialActive' = (/\ lastParseAt' # Never
                                /\ now' - lastParseAt' < SERIAL_TIMEOUT_MS)
        /\ (~serialActive /\ serialActive') => ParsedInPass ]_vars

\* a pass within 5000 ms of setup's write to lastDataTime, nothing parsed yet
C8_Witness ==
    /\ mode = "Idle"
    /\ drawn = <<"Idle">>
    /\ ~hasSerialData
    /\ lastParseAt = Never
    /\ now > lastDataTime
    /\ now - lastDataTime < SERIAL_TIMEOUT_MS
    /\ ~serialActive

\* the pass ends with a freshly parsed record whose fps is 0
IngestsFpsZero == SelectingPass /\ ParsedInPass /\ hw'.fps = 0

\* the record cpu = 150, fps = 0 is cached as cpu = 100, fps = 0
Cpu150Cached ==
    (IngestsFpsZero /\ parseLog'[Len(parseLog')] = LineCpu150Fps0)
        => hw'.cpu = 100 /\ hw'.fps = 0

\* C9 as stated: on the pass that ingests a valid record with fps = 0 the mode
\* remains what it was before.
C9_ModeUnchanged ==
    [][ /\ Cpu150Cached
        /\ IngestsFpsZero => inGamingMode' = inGamingMode ]_vars

\* C9 amended: such a pass never enters Gaming: Idle stays Idle, and Gaming
\* stays Gaming while not more than 3000 ms have passed since the last pass
\* with fresh fps > 0 and becomes Idle otherwise.
C9_NoGamingTrigger ==
    [][ /\ Cpu150Cached
        /\ IngestsFpsZero
            => /\ (~inGamingMode => ~inGamingMode' /\ mode' = "Idle")
               /\ (inGamingMode
                     => inGamingMode' = (now' - lastFpsTime <= GAMING_COOLDOWN_MS)) ]_vars

\* Idle before and after the pass that ingested the record cpu = 150, fps = 0
C9_Witness ==
    /\ mode = "Idle"
    /\ ~inGamingMode
    /\ lastFpsTime = 0
    /\ parseLog = <<LineCpu150Fps0>>
    /\ lastParseAt = now
    /\ hw.cpu = 100
    /\ hw.fps = 0

\* C10 as stated: no pass of loop() shows the boot screen or selects Boot.
C10_BootNeverReentered ==
    [][ Pass => mode' # "Boot" /\ "Boot" \notin Range(drawn') ]_vars

\* C10 amended: no pass ends in Boot; the boot screen is drawn by a pass only
\* when the pass starts with wifiConnected false and finds the link up (clock
\* and weather sync), and that pass goes on to draw Gaming or Idle last.
C10_BootOnlyWhileSyncing ==
    [][ Pass
          => /\ mode' # "Boot"
             /\ "Boot" \in Range(drawn')
                  => /\ ~wifiConnected /\ linkUp
                     /\ drawn'[Len(drawn')] \in {"Gaming", "Idle"}
                     /\ mode' = drawn'[Len(drawn')] ]_vars

\* the pass on which the WiFi came up after provisioning
C10_Witness ==
    /\ drawn = <<"Boot", "Boot", "Idle">>
    /\ mode = "Idle"
    /\ now > lastDataTime

\* the first n characters of s, all of s when it is shorter
Prefix(s, n) == [i \in 1..Min(Len(s), n) |-> s[i]]

\* the eight numeric fields of a record
Numeric(h) == [k \in NumKeys |-> h[k]]

\* C11: when the line handed to parseJson is the valid line that was handed
\* over just before, the cached record (numeric fields, hora, data) after the
\* second call equals the record after the first.
C11_Idempotence ==
    [][ (~doc.err /\ parseLog # <<>> /\ parseLog[Len(parseLog)] = doc)
          => hw' = hw ]_vars

\* the same valid line, with fps inside its range, was parsed twice in a row
C11_Witness ==
    /\ Len(parseLog) = 2
    /\ parseLog[1] = parseLog[2]
    /\ ~parseLog[2].err
    /\ lastParseAt = now
    /\ hw.fps = 9998

\* C12: a valid record with a non-empty time (date) string sets hora (data)
\* to that string cut to 5 (11) characters; with the key absent or the string
\* empty hora (data) stays as it was, and the numeric fields are updated in
\* either case.
C12_StringFields ==
    [][ ~doc.err
          => LET present(key) == key \in DOMAIN doc.obj /\ Len(doc.obj[key]) > 0
             IN /\ hw'.hora = IF present("time") THEN Prefix(doc.obj["time"], 5)
                              ELSE hw.hora
                /\ hw'.data = IF present("date") THEN Prefix(doc.obj["date"], 11)
                              ELSE hw.data
                /\ Numeric(hw') = Numeric(ClampFields(HWDataInit, doc.obj)) ]_vars

\* an over-long time and date were cut, then a record with an empty time and no
\* usable clock change updated cpu and left hora alone
C12_Witness ==
    /\ Len(parseLog) = 2
    /\ ~parseLog[2].err
    /\ "time" \in DOMAIN parseLog[2].obj
    /\ parseLog[2].obj["time"] = <<>>
    /\ hw.cpu = 7
    /\ hw.hora = <<"1", "4", ":", "3", "2">>
    /\ hw.data = <<"0", "7", " ", "J", "u", "n">>

\* the last pass went through the clock block without fresh telemetry and
\* with synced time, so it called updateNtpTime
NtpRefreshed == mode \in {"Idle", "Gaming"} /\ ~serialActive /\ ntpSynced

StringsOf(ls, key, cap) ==
    {StrNCopy(Deserialize(ls[i]).obj[key], cap) :
        i \in {j \in DOMAIN ls : /\ ~Deserialize(ls[j]).err
                                  /\ key \in DOMAIN Deserialize(ls[j]).obj}}

\* C14: on a pass with fresh telemetry the network clock refresh is skipped:
\* hw.hora and hw.data are the cached ones or come from a record parsed in
\* this pass, never from the network time.
C14_SerialTimePrecedence ==
    [][ (SelectingPass /\ serialActive')
          => /\ hw'.hora \in {hw.hora} \cup StringsOf(parseLog', "time", HoraCap)
             /\ hw'.data \in {hw.data} \cup StringsOf(parseLog', "date", DataCap) ]_vars

\* time is synced, telemetry is fresh, and a pass after the one that parsed
\* the record still shows the time string of the record
C14_Witness ==
    /\ mode \in {"Idle", "Gaming"}
    /\ ntpSynced
    /\ serialActive
    /\ lastParseAt # Never
    /\ lastParseAt < now
    /\ hw.hora = <<"1", "4", ":", "3", "2">>

\* the weather snapshot
Snapshot == <<weatherTemp, weatherCode, weatherValid, lastWeatherUpdate>>

\* C15: a fetchWeather that does not obtain a decoded response leaves
\* weatherTemp, weatherCode, weatherValid and lastWeatherUpdate all unchanged:
\* a step that changes any of the four is a complete successful fetch (known
\* location, snapshot valid and stamped with the time of the pass); so
\* weatherValid, once true, is never set back to false.
C15_FailedRefresh ==
    [][ /\ Snapshot' # Snapshot
          => /\ ~(weatherLat' = 0 /\ weatherLon' = 0)
             /\ weatherValid'
             /\ lastWeatherUpdate' = now'
             /\ \E r \in WxResponses :
                  r.ok /\ weatherTemp' = r.temp /\ weatherCode' = r.code
        /\ weatherValid => weatherValid' ]_vars

\* the last pass found the refresh due, the location known and the snapshot
\* valid; its request failed and the snapshot is still the one of setup()
C15_Witness ==
    /\ mode \in {"Idle", "Gaming"}
    /\ wifiConnected
    /\ weatherLat # 0
    /\ now - lastWeatherUpdate > WEATHER_INTERVAL
    /\ weatherValid
    /\ weatherTemp = 21
    /\ lastWeatherUpdate = 1000

\* C16: the mode becomes Gaming only on a pass with fresh telemetry and a
\* cached fps > 0; every such pass selects Gaming and sets lastFpsTime to the
\* time of the pass; Gaming is not active before a record with fps > 0 was
\* parsed (after any step, Gaming has a successful parse behind it).
C16_GamingEntry ==
    [][ /\ (~inGamingMode /\ inGamingMode')
          => Pass /\ serialActive' /\ hw'.fps > 0
        /\ (mode = "Idle" /\ mode' = "Gaming")
          => Pass /\ serialActive' /\ hw'.fps > 0
        /\ (SelectingPass /\ serialActive' /\ hw'.fps > 0)
          => mode' = "Gaming" /\ lastFpsTime' = now'
        /\ (inGamingMode' \/ mode' = "Gaming")
          => hasSerialData' /\ lastParseAt' # Never ]_vars

\* a pass after the one that parsed fps = 60 found the telemetry still fresh:
\* Gaming, with lastFpsTime moved to that pass
C16_Witness ==
    /\ mode = "Gaming"
    /\ serialActive
    /\ hw.fps = 60
    /\ lastParseAt # Never
    /\ lastParseAt < now
    /\ lastFpsTime = now

\* C17: on a pass that starts in Gaming and on which the gaming condition
\* (fresh telemetry and fps > 0) does not hold, Gaming is kept exactly while
\* now - lastFpsTime < 3000; at 3000 ms and beyond the mode becomes Idle.
C17_CooldownBoundary ==
    [][ (SelectingPass /\ inGamingMode /\ ~(serialActive' /\ hw'.fps > 0))
          => (mode' = "Gaming" <=> now' - lastFpsTime < GAMING_COOLDOWN_MS) ]_vars

\* C18: a pass that finds the telemetry stale and more than 3000 ms gone
\* since the last pass with fresh fps > 0 selects Idle, whatever fps is still
\* cached; and Idle is left for Gaming only by a pass that has parsed a valid
\* record and ends with fps > 0.
C18_IdleNeverStarves ==
    [][ /\ (SelectingPass /\ ~serialActive'
              /\ now' - lastFpsTime > GAMING_COOLDOWN_MS)
          => mode' = "Idle"
        /\ (mode = "Idle" /\ mode' = "Gaming")
          => /\ parseLog' # <<>>
             /\ lastParseAt' = now'
             /\ serialActive'
             /\ hw'.fps > 0 ]_vars

\* Gaming had been entered with fps = 60; the telemetry went stale, the
\* cooldown ran out, and the pass shows Idle with fps = 60 still cached
C18_Witness ==
    /\ mode = "Idle"
    /\ ~inGamingMode
    /\ hw.fps = 60
    /\ lastFpsTime > 0
    /\ ~serialActive
    /\ now - lastDataTime >= SERIAL_TIMEOUT_MS
    /\ now - lastFpsTime > GAMING_COOLDOWN_MS

IsTerminator(c) == c = LF \/ c = CR

\* C19: after readSerial has processed a byte, serialBuffer holds at most 512
\* bytes, and it is empty when the byte was a terminator.
C19_BoundedBuffer ==
    [][ /\ Len(serialBuffer') <= 512
        /\ IsTerminator(fed'[Len(fed')]) => serialBuffer' = <<>> ]_vars

\* 512 bytes without a terminator are all held
C19_Witness ==
    /\ Len(fed) = 512
    /\ Len(serialBuffer) = 512
    /\ rx # <<>>

\* no run of more than 512 bytes without a terminator
NoOversizedRun(s) ==
    \A i \in 513..Len(s) : \E k \in (i - 512)..i : IsTerminator(s[k])

\* positions of the terminators that end a non-empty run
RunEnds(s) ==
    {i \in 2..Len(s) : IsTerminator(s[i]) /\ ~IsTerminator(s[i - 1])}

\* the maximal run of non-terminator bytes that ends just before position i
RunBefore(s, i) ==
    LET j == CHOOSE j \in 0..(i - 1) :
                 /\ j = 0 \/ IsTerminator(s[j])
                 /\ \A k \in (j + 1)..(i - 1) : ~IsTerminator(s[k])
    IN  SubSeq(s, j + 1, i - 1)

\* the terminated non-empty runs of s, in order
Runs(s) ==
    LET E == RunEnds(s)
    IN  [n \in 1..Cardinality(E) |->
            RunBefore(s, CHOOSE i \in E : Cardinality({e \in E : e <= i}) = n)]

\* C20: as long as the input had no oversized run, the lines handed to
\* parseJson are exactly the maximal non-empty runs of non-terminator bytes
\* that were followed by '\n' or '\r', each once and in arrival order; a
\* terminator that arrives on an empty buffer starts no parse and changes
\* nothing.
C20_LineFraming ==
    [][ /\ NoOversizedRun(fed') => parseLog' = Runs(fed')
        /\ (IsTerminator(fed'[Len(fed')]) /\ serialBuffer = <<>>)
             => UNCHANGED <<serialBuffer, parseLog, hw, lastDataTime,
                            hasSerialData, lastParseAt>> ]_vars

\* two lines, the first ended by "\r\n": two parses, the '\n' of the pair none
C20_Witness ==
    /\ rx = <<>>
    /\ fed = LineFps60 \o <<CR, LF>> \o LineTruncated \o <<LF>>
    /\ parseLog = <<LineFps60, LineTruncated>>
    /\ hw.fps = 60

\* the last pass made the periodic weather request: it either stamped the
\* snapshot with its own time or left a stamp that was already overdue
WeatherAttempted ==
    /\ mode \in {"Idle", "Gaming"}
    /\ wifiConnected
    /\ ~(weatherLat = 0 /\ weatherLon = 0)
    /\ \/ lastWeatherUpdate = now
       \/ now - lastWeatherUpdate > WEATHER_INTERVAL

\* C21: after a periodic fetchWeather attempt made from loop(), successful or
\* not, the next periodic attempt comes no sooner than 900000 ms later.
C21_WeatherCadence ==
    [][ (WeatherAttempted /\ Pass /\ wifiConnected'
           /\ now' - lastWeatherUpdate > WEATHER_INTERVAL)
          => now' - now >= WEATHER_INTERVAL ]_vars

\* C22: the pass that finds the link down on the normal path clears
\* wifiConnected and still reads the serial port and draws Gaming or Idle;
\* every pass after it, while the link is down, takes the provisioning branch
\* (config screen, serial bytes left waiting, inGamingMode, lastFpsTime and hw
\* unchanged); the pass that finds the link up again syncs, reads the serial
\* port and selects Gaming or Idle, with wifiConnected set unless the link is
\* down again at the reconnect check of the same pass.
C22_WiFiDrop ==
    [][ /\ (Pass /\ wifiConnected /\ ~linkUp)
          => /\ ~wifiConnected'
             /\ rx' = <<>>
             /\ mode' \in {"Idle", "Gaming"}
             /\ drawn' = <<mode'>>
        /\ (Pass /\ ~wifiConnected /\ ~linkUp)
          => /\ ~wifiConnected'
             /\ mode' = "Provisioning"
             /\ drawn' \in {<<>>, <<"Config">>}
             /\ UNCHANGED <<rx, serialBuffer, inGamingMode, lastFpsTime, hw,
                            lastDataTime, hasSerialData>>
        /\ (Pass /\ ~wifiConnected /\ linkUp)
          => /\ wifiConnected' = linkUp'
             /\ rx' = <<>>
             /\ mode' \in {"Idle", "Gaming"}
             /\ drawn' = <<"Boot", "Boot", mode'>> ]_vars

\* the link dropped after setup() had connected, provisioning passes left the
\* record fps = 60 waiting, and the pass that found the link up again parsed
\* it and selected Gaming
C22_Witness ==
    /\ linkChanges = 2
    /\ wifiConnected
    /\ linkUp
    /\ drawn = <<"Boot", "Boot", "Gaming">>
    /\ lastParseAt = now
    /\ hw.fps = 60
    /\ now >= 4000

====
